---- MODULE Spec2Model ----
(***************************************************************************)
(* Model of src/LLD-Python/rate-limiter/main.py: the two per-key rate      *)
(* limiters (SlidingWindowRateLimiter, TokenBucketRateLimiter), the        *)
(* function RateLimiterFactory that builds them, and threads that call     *)
(* allow_requests concurrently.                                            *)
(*                                                                         *)
(* Time is counted in whole clock ticks.  refill_rate is a rational        *)
(* refill_num / refill_den, and a bucket's token count is stored as the    *)
(* numerator of a fraction over refill_den, so that the refill arithmetic  *)
(* of the code is exact.  Python objects (the deque or the dict that holds *)
(* one key's state) live in `heap`; `store` is the limiter's dictionary    *)
(* from key to heap reference, and a thread's local name `requests` /      *)
(* `bucket` is the reference `ref[t]`.                                     *)
(***************************************************************************)
EXTENDS Integers, Sequences, FiniteSets

\* ---------------------------------------------------------------- bounds
NumThreads == 2
MaxTime == 3
MaxCalls == 4

\* ------------------------------------------------- constants of the code
FactoryCapacity == 100
FactoryRefillNum == 100
FactoryRefillDen == 60
FactoryMaxRequests == 100
FactoryTimeWindow == 60

Threads == 1..NumThreads
Times == 0..MaxTime
Keys == {"a", "b"}
Selectors == {"sliding_window", "token_bucket", "test", "SlidingWindow"}

\* Arguments the constructors are called with directly.
RequestChoices == {1, 2}
WindowChoices == {1, 2}
CapacityChoices == {1, 2}
RateChoices == {<<1, 1>>, <<1, 2>>}

VARIABLES
    selector,     \* the argument RateLimiterFactory was called with, "" before, "ctor" for a direct construction
    raised,       \* the exception the construction raised, or "none"
    limiter,      \* the limiter object: its class and its constructor fields
    clock,        \* time.time()
    lock,         \* self.lock: 0 when free, else the thread holding it
    store,        \* self.user_requests / self.buckets: key -> heap reference, 0 when absent
    heap,         \* the per-key state objects, in order of creation
    pc,           \* each thread's position in allow_requests
    key,          \* each thread's user_id ("" outside a call)
    cur,          \* each thread's current_time / now (0 outside a call)
    absent,       \* each thread's outcome of `user_id not in ...`
    ref,          \* each thread's local `requests` / `bucket`
    ok,           \* each thread's outcome of the admission test
    last,         \* history: the call that returned last, with its return value "True" or "False"
    admitted,     \* history: per key and clock reading, the number of calls admitted
    ncalls,       \* history: the number of calls started
    idle_start,   \* history: per key, the bucket as it was before the refill that moved last_refill
    entry         \* history: each thread's `requests` / `bucket` as it was when the call bound it

vars == <<selector, raised, limiter, clock, lock, store, heap, pc, key, cur,
          absent, ref, ok, last, admitted, ncalls, idle_start, entry>>

Min(a, b) == IF a <= b THEN a ELSE b

NoEntry == [ts |-> <<>>, tokens |-> 0, last_refill |-> 0]

NoLimiter ==
    [kind |-> "None", max_requests |-> 0, time_window |-> 0,
     capacity |-> 0, refill_num |-> 0, refill_den |-> 1]

\* SlidingWindowRateLimiter.__init__
SlidingWindowRateLimiter(max_requests, time_window) ==
    [kind |-> "SlidingWindowRateLimiter", max_requests |-> max_requests,
     time_window |-> time_window, capacity |-> 0, refill_num |-> 0, refill_den |-> 1]

\* TokenBucketRateLimiter.__init__
TokenBucketRateLimiter(capacity, refill_num, refill_den) ==
    [kind |-> "TokenBucketRateLimiter", max_requests |-> 0, time_window |-> 0,
     capacity |-> capacity, refill_num |-> refill_num, refill_den |-> refill_den]

FactoryDefault(rate_limiter_type) ==
    [limiter |-> SlidingWindowRateLimiter(FactoryMaxRequests, FactoryTimeWindow),
     raised |-> "none"]

\* RateLimiterFactory: the limiter it returns, or the exception it raises.
RateLimiterFactory(rate_limiter_type) ==
    IF rate_limiter_type = "token_bucket"
    THEN [limiter |-> TokenBucketRateLimiter(FactoryCapacity, FactoryRefillNum, FactoryRefillDen),
          raised |-> "none"]
    ELSE IF rate_limiter_type = "sliding_window"
    THEN [limiter |-> SlidingWindowRateLimiter(FactoryMaxRequests, FactoryTimeWindow),
          raised |-> "none"]
    ELSE [limiter |-> NoLimiter, raised |-> "ValueError"]

IsSW == limiter.kind = "SlidingWindowRateLimiter"
IsTB == limiter.kind = "TokenBucketRateLimiter"

\* capacity and the number 1, in the unit the token count is stored in
CapacityUnits == limiter.capacity * limiter.refill_den
OneToken == limiter.refill_den

Init ==
    /\ selector = ""
    /\ raised = "none"
    /\ limiter = NoLimiter
    /\ clock = 0
    /\ lock = 0
    /\ store = [k \in Keys |-> 0]
    /\ heap = <<>>
    /\ pc = [t \in Threads |-> "idle"]
    /\ key = [t \in Threads |-> ""]
    /\ cur = [t \in Threads |-> 0]
    /\ absent = [t \in Threads |-> FALSE]
    /\ ref = [t \in Threads |-> 0]
    /\ ok = [t \in Threads |-> FALSE]
    /\ last = [key |-> "", cur |-> 0, result |-> "none"]
    /\ admitted = [k \in Keys |-> [n \in Times |-> 0]]
    /\ ncalls = 0
    /\ idle_start = [k \in Keys |-> [tokens |-> 0, last_refill |-> 0]]
    /\ entry = [t \in Threads |-> NoEntry]

Unbuilt == selector = ""

\* ------------------------------------------------------------ construction
threadVars == <<clock, lock, store, heap, pc, key, cur, absent, ref, ok, last,
                admitted, ncalls, idle_start, entry>>

\* __main__: limiter = RateLimiterFactory(sel)
CallFactory(sel) ==
    /\ Unbuilt
    /\ selector' = sel
    /\ limiter' = RateLimiterFactory(sel).limiter
    /\ raised' = RateLimiterFactory(sel).raised
    /\ UNCHANGED threadVars

NewSlidingWindow(m, w) ==
    /\ Unbuilt
    /\ selector' = "ctor"
    /\ limiter' = SlidingWindowRateLimiter(m, w)
    /\ raised' = "none"
    /\ UNCHANGED threadVars

NewTokenBucket(c, r) ==
    /\ Unbuilt
    /\ selector' = "ctor"
    /\ limiter' = TokenBucketRateLimiter(c, r[1], r[2])
    /\ raised' = "none"
    /\ UNCHANGED threadVars

\* ------------------------------------------------------------------- clock
Tick ==
    /\ clock < MaxTime
    /\ clock' = clock + 1
    /\ UNCHANGED <<selector, raised, limiter, lock, store, heap, pc, key, cur,
                   absent, ref, ok, last, admitted, ncalls, idle_start, entry>>

\* ---------------------------------------------------------- allow_requests
confVars == <<selector, raised, limiter>>

\* current_time = time.time()  /  now = time.time()
ReadClock(t, k) ==
    /\ pc[t] = "idle"
    /\ limiter.kind # "None"
    /\ ncalls < MaxCalls
    /\ ncalls' = ncalls + 1
    /\ key' = [key EXCEPT ![t] = k]
    /\ cur' = [cur EXCEPT ![t] = clock]
    /\ pc' = [pc EXCEPT ![t] = "wait"]
    /\ UNCHANGED <<clock, lock, store, heap, absent, ref, ok, last, admitted,
                   idle_start, entry>>
    /\ UNCHANGED confVars

LockIgnored(l) == TRUE

\* threading.Lock: acquire succeeds only on a free lock
LockFree(l) == l = 0

\* with self.lock:
Acquire(t) ==
    /\ pc[t] = "wait"
    /\ LockFree(lock)
    /\ lock' = t
    /\ pc' = [pc EXCEPT ![t] = "lookup"]
    /\ UNCHANGED <<clock, store, heap, key, cur, absent, ref, ok, last,
                   admitted, ncalls, idle_start, entry>>
    /\ UNCHANGED confVars

\* if user_id not in self.user_requests  /  self.buckets
CheckKey(t) ==
    /\ pc[t] = "lookup"
    /\ absent' = [absent EXCEPT ![t] = (store[key[t]] = 0)]
    /\ pc' = [pc EXCEPT ![t] = "bind"]
    /\ UNCHANGED <<clock, lock, store, heap, key, cur, ref, ok, last,
                   admitted, ncalls, idle_start, entry>>
    /\ UNCHANGED confVars

NewStateEmpty(k, now) == [key |-> k, ts |-> <<>>, tokens |-> 0, last_refill |-> now]

\* collections.deque()  /  {'tokens': self.capacity, 'last_refill': now}
NewState(k, now) ==
    IF IsSW
    THEN [key |-> k, ts |-> <<>>, tokens |-> 0, last_refill |-> 0]
    ELSE [key |-> k, ts |-> <<>>, tokens |-> CapacityUnits, last_refill |-> now]

StoredAfterAny(st, k) == [x \in Keys |-> IF st[x] = 0 THEN Len(heap) + 1 ELSE st[x]]

\* self.user_requests[user_id] = <new object>
StoredAfter(st, k) == [st EXCEPT ![k] = Len(heap) + 1]

\* the body of the `if`, then requests = self.user_requests[user_id]
Bind(t) ==
    /\ pc[t] = "bind"
    /\ IF absent[t]
       THEN /\ heap' = Append(heap, NewState(key[t], cur[t]))
            /\ store' = StoredAfter(store, key[t])
            /\ idle_start' = [idle_start EXCEPT ![key[t]] =
                                [tokens |-> NewState(key[t], cur[t]).tokens,
                                 last_refill |-> NewState(key[t], cur[t]).last_refill]]
       ELSE UNCHANGED <<heap, store, idle_start>>
    /\ ref' = [ref EXCEPT ![t] = store'[key[t]]]
    /\ entry' = [entry EXCEPT ![t] =
                    [ts |-> heap'[ref'[t]].ts, tokens |-> heap'[ref'[t]].tokens,
                     last_refill |-> heap'[ref'[t]].last_refill]]
    /\ absent' = [absent EXCEPT ![t] = FALSE]
    /\ pc' = [pc EXCEPT ![t] = IF IsSW THEN "trim" ELSE "refill"]
    /\ UNCHANGED <<clock, lock, key, cur, ok, last, admitted, ncalls>>
    /\ UNCHANGED confVars

ExpiredOrEqual(timestamp, now) == timestamp <= now - limiter.time_window

\* requests[0] < current_time - self.time_window
Expired(timestamp, now) == timestamp < now - limiter.time_window

\* one evaluation of the while condition, and popleft() when it holds
Trim(t) ==
    /\ pc[t] = "trim"
    /\ IF heap[ref[t]].ts # <<>> /\ Expired(Head(heap[ref[t]].ts), cur[t])
       THEN /\ heap' = [heap EXCEPT ![ref[t]].ts = Tail(@)]
            /\ pc' = pc
       ELSE /\ heap' = heap
            /\ pc' = [pc EXCEPT ![t] = "check"]
    /\ UNCHANGED <<clock, lock, store, key, cur, absent, ref, ok, last,
                   admitted, ncalls, idle_start, entry>>
    /\ UNCHANGED confVars

\* elapsed = now - bucket['last_refill']
Elapsed(now, last_refill) == now - last_refill

RefilledUncapped(tokens, elapsed) == tokens + elapsed * limiter.refill_num

\* min(self.capacity, bucket['tokens'] + elapsed * self.refill_rate)
Refilled(tokens, elapsed) == Min(CapacityUnits, tokens + elapsed * limiter.refill_num)

\* the refill: bucket['tokens'] = ...; bucket['last_refill'] = now
Refill(t) ==
    /\ pc[t] = "refill"
    /\ heap' = [heap EXCEPT
                  ![ref[t]].tokens = Refilled(@, Elapsed(cur[t], heap[ref[t]].last_refill)),
                  ![ref[t]].last_refill = cur[t]]
    /\ idle_start' = IF cur[t] # heap[ref[t]].last_refill
                     THEN [idle_start EXCEPT ![key[t]] =
                             [tokens |-> heap[ref[t]].tokens,
                              last_refill |-> heap[ref[t]].last_refill]]
                     ELSE idle_start
    /\ pc' = [pc EXCEPT ![t] = "check"]
    /\ UNCHANGED <<clock, lock, store, key, cur, absent, ref, ok, last,
                   admitted, ncalls, entry>>
    /\ UNCHANGED confVars

HasRoomOrFull(obj) ==
    IF IsSW THEN Len(obj.ts) <= limiter.max_requests ELSE obj.tokens >= 0

\* len(requests) < self.max_requests  /  bucket['tokens'] >= 1
HasRoom(obj) ==
    IF IsSW THEN Len(obj.ts) < limiter.max_requests ELSE obj.tokens >= OneToken

\* the `if` that decides the call
Check(t) ==
    /\ pc[t] = "check"
    /\ ok' = [ok EXCEPT ![t] = HasRoom(heap[ref[t]])]
    /\ pc' = [pc EXCEPT ![t] = "commit"]
    /\ UNCHANGED <<clock, lock, store, heap, key, cur, absent, ref, last,
                   admitted, ncalls, idle_start, entry>>
    /\ UNCHANGED confVars

\* requests.append(current_time)  /  bucket['tokens'] -= 1
Recorded(obj, now) ==
    IF IsSW
    THEN [obj EXCEPT !.ts = Append(@, now)]
    ELSE [obj EXCEPT !.tokens = @ - OneToken]

RecordedAnyway(obj, now) == Recorded(obj, now)

\* return False: the object is left as the trim or the refill made it
Unrecorded(obj, now) == obj

HeldOnDenial(t, admit) == IF admit THEN 0 ELSE t

\* leaving the `with` block releases the lock on every path
Released(t, admit) == 0

\* the chosen branch up to its return, which leaves the `with` block
Commit(t) ==
    /\ pc[t] = "commit"
    /\ heap' = [heap EXCEPT ![ref[t]] =
                  IF ok[t] THEN Recorded(@, cur[t]) ELSE Unrecorded(@, cur[t])]
    /\ admitted' = IF ok[t]
                   THEN [admitted EXCEPT ![key[t]][cur[t]] = @ + 1]
                   ELSE admitted
    /\ last' = [key |-> key[t], cur |-> cur[t],
                result |-> IF ok[t] THEN "True" ELSE "False"]
    /\ key' = [key EXCEPT ![t] = ""]
    /\ cur' = [cur EXCEPT ![t] = 0]
    /\ lock' = Released(t, ok[t])
    /\ ok' = [ok EXCEPT ![t] = FALSE]
    /\ ref' = [ref EXCEPT ![t] = 0]
    /\ entry' = [entry EXCEPT ![t] = NoEntry]
    /\ pc' = [pc EXCEPT ![t] = "idle"]
    /\ UNCHANGED <<clock, store, absent, ncalls, idle_start>>
    /\ UNCHANGED confVars

\* allow_requests, one step of thread t
Step(t) ==
    \/ Acquire(t)
    \/ CheckKey(t)
    \/ Bind(t)
    \/ Trim(t)
    \/ Refill(t)
    \/ Check(t)
    \/ Commit(t)

Construct ==
    \/ \E sel \in Selectors : CallFactory(sel)
    \/ \E m \in RequestChoices, w \in WindowChoices : NewSlidingWindow(m, w)
    \/ \E c \in CapacityChoices, r \in RateChoices : NewTokenBucket(c, r)

\* threads calling allow_requests concurrently
Next ==
    \/ Construct
    \/ Tick
    \/ \E t \in Threads, k \in Keys : ReadClock(t, k)
    \/ \E t \in Threads : Step(t)

Spec == Init /\ [][Next]_vars

\* one caller: each call returns before the next one starts
SeqNext ==
    \/ Construct
    \/ Tick
    \/ \E k \in Keys : ReadClock(1, k)
    \/ Step(1)

SeqSpec == Init /\ [][SeqNext]_vars

\* ------------------------------------------------------------- histories
RECURSIVE SumOver(_, _, _)
\* the number of calls for key k admitted with a clock reading in lo..hi
SumOver(k, lo, hi) ==
    IF hi < lo THEN 0
    ELSE (IF hi \in Times THEN admitted[k][hi] ELSE 0) + SumOver(k, lo, hi - 1)

RECURSIVE Count(_, _)
\* how often n occurs in the sequence q
Count(q, n) ==
    IF q = <<>> THEN 0 ELSE (IF Head(q) = n THEN 1 ELSE 0) + Count(Tail(q), n)

Sorted(q) == \A i \in 1..Len(q) : \A j \in i..Len(q) : q[i] <= q[j]

InCriticalSection(t) == pc[t] \in {"lookup", "bind", "trim", "refill", "check", "commit"}
Bound(t) == pc[t] \in {"trim", "refill", "check", "commit"}
Returns(t) == pc[t] = "commit" /\ pc'[t] = "idle"

\* ------------------------------------------------------------------ claims

\* C1: with one caller (so timestamps are recorded in clock order), for every
\* key and every instant n, the calls admitted with a timestamp in the closed
\* interval [n - time_window, n] number at most max_requests.
C1_SlidingWindowBounded ==
    IsSW => \A k \in Keys : \A n \in Times :
                SumOver(k, n - limiter.time_window, n) <= limiter.max_requests

\* a call was denied while its window held max_requests admissions, some of
\* them made before the clock last advanced
C1_Witness ==
    /\ IsSW
    /\ pc[1] = "idle" /\ last.result = "False"
    /\ SumOver(last.key, last.cur - limiter.time_window, last.cur) = limiter.max_requests
    /\ admitted[last.key][last.cur] < limiter.max_requests

\* C2: with threads calling concurrently, for every key and every instant n the
\* calls admitted with a recorded timestamp in the interval
\* (n - time_window, n] number at most max_requests.
C2_ConcurrentWindowBounded ==
    IsSW => \A k \in Keys : \A n \in Times :
                SumOver(k, n - limiter.time_window + 1, n) <= limiter.max_requests

\* C3: every bucket's token count stays within 0 .. capacity.
C3_TokensWithinCapacity ==
    IsTB => \A i \in DOMAIN heap :
                heap[i].tokens >= 0 /\ heap[i].tokens <= CapacityUnits

\* min(capacity, floor(tokens_before + T * refill_rate)) for key k, where T is
\* the idle time that ended at the bucket's last_refill
Allowance(k) ==
    Min(limiter.capacity,
        (idle_start[k].tokens
           + (heap[store[k]].last_refill - idle_start[k].last_refill) * limiter.refill_num)
        \div limiter.refill_den)

\* C4: with one caller, the calls admitted for a key at the clock reading that
\* ended an idle time T never number more than
\* min(capacity, floor(tokens_before + T * refill_rate)); between calls another
\* call at that reading would be admitted exactly while they number fewer; and
\* a call denied at that reading finds exactly that many admitted.
C4_IdleBurst ==
    IsTB => \A k \in Keys : store[k] # 0 =>
        LET n == admitted[k][heap[store[k]].last_refill] IN
        /\ n <= Allowance(k)
        /\ pc[1] = "idle" => (heap[store[k]].tokens >= OneToken <=> n < Allowance(k))
        /\ (pc[1] = "idle" /\ last.key = k /\ last.result = "False") =>
               (last.cur = heap[store[k]].last_refill /\ n = Allowance(k))

\* a burst after an idle time was admitted up to the allowance and then denied
C4_Witness ==
    /\ IsTB
    /\ pc[1] = "idle" /\ last.result = "False"
    /\ store[last.key] # 0
    /\ idle_start[last.key].last_refill < heap[store[last.key]].last_refill
    /\ admitted[last.key][last.cur] = Allowance(last.key)
    /\ Allowance(last.key) >= 1

\* C5: a step changes the stored state of key k (its entry in the dictionary
\* or the object the entry refers to) only if the thread holding the lock is
\* calling for k; so calls for another key leave k's state, and with it the
\* decisions of k's calls, as they were.
C5_PerKeyIsolation ==
    [][\A k \in Keys :
          (lock = 0 \/ key[IF lock = 0 THEN 1 ELSE lock] # k) =>
              /\ store'[k] = store[k]
              /\ store[k] # 0 => heap'[store[k]] = heap[store[k]]]_vars

\* both keys were admitted at one clock reading by a limiter that has room for
\* one call per key
C5_Witness ==
    /\ \/ IsSW /\ limiter.max_requests = 1
       \/ IsTB /\ limiter.capacity = 1
    /\ \E n \in Times : admitted["a"][n] = 1 /\ admitted["b"][n] = 1
    /\ store["a"] # 0 /\ store["b"] # 0 /\ store["a"] # store["b"]

\* C6 as stated: when a sliding-window call returns, every retained timestamp
\* is strictly newer than now - time_window.
C6_StrictlyNewerThanCutoff ==
    [][\A t \in Threads : (IsSW /\ Returns(t)) =>
          \A i \in 1..Len(heap'[ref[t]].ts) :
              heap'[ref[t]].ts[i] > cur[t] - limiter.time_window]_vars

\* C6 amended: a head timestamp equal to now - time_window is kept (only a
\* strictly older one is discarded); when the call returns, the head of the
\* retained sequence is at least now - time_window, and so is every retained
\* timestamp if the sequence is in chronological order; a call that finds
\* max_requests timestamps with the head equal to now - time_window is denied.
C6_CutoffIsRetained ==
    [][\A t \in Threads : IsSW =>
          /\ (pc[t] = "trim" /\ heap[ref[t]].ts # <<>>) =>
                /\ Head(heap[ref[t]].ts) >= cur[t] - limiter.time_window
                      => heap' = heap
                /\ pc'[t] = "check"
                      => Head(heap[ref[t]].ts) >= cur[t] - limiter.time_window
          /\ Returns(t) =>
                LET q == heap'[ref[t]].ts
                    cutoff == cur[t] - limiter.time_window
                IN  /\ q # <<>> => Head(q) >= cutoff
                    /\ Sorted(q) => \A i \in 1..Len(q) : q[i] >= cutoff
                    /\ (Len(heap[ref[t]].ts) = limiter.max_requests
                          /\ Head(heap[ref[t]].ts) = cutoff) => last'.result = "False"]_vars

\* a call was denied because the oldest of max_requests timestamps was exactly
\* time_window old
C6_Witness ==
    /\ IsSW
    /\ \A t \in Threads : pc[t] = "idle"
    /\ last.result = "False"
    /\ store[last.key] # 0
    /\ Len(heap[store[last.key]].ts) = limiter.max_requests
    /\ Head(heap[store[last.key]].ts) = last.cur - limiter.time_window

\* C7: the lock makes the read-modify-write of a key's state one critical
\* section: at most one thread is inside it, and that thread holds the lock;
\* the admission test a returning call acted on still describes the state it
\* updates (the free slot or the token it saw was taken by no other call), an
\* admitted call adds exactly its own timestamp or takes exactly one token, a
\* denied call changes nothing, and no deque ever holds more than
\* max_requests timestamps.
C7_SameKeySerialized ==
    [][/\ \A t \in Threads : \A u \in Threads :
             (InCriticalSection(t)' /\ InCriticalSection(u)') => (t = u /\ lock' = t)
       /\ \A i \in DOMAIN heap' : IsSW => Len(heap'[i].ts) <= limiter.max_requests
       /\ \A t \in Threads : Returns(t) =>
             /\ ref[t] = store[key[t]]
             /\ ok[t] <=> HasRoom(heap[ref[t]])
             /\ last' = [key |-> key[t], cur |-> cur[t],
                         result |-> IF ok[t] THEN "True" ELSE "False"]
             /\ (ok[t] /\ IsSW) => heap'[ref[t]].ts = Append(heap[ref[t]].ts, cur[t])
             /\ (ok[t] /\ IsTB) => heap'[ref[t]].tokens = heap[ref[t]].tokens - OneToken
             /\ ~ok[t] => heap' = heap]_vars

\* the only two calls made were for one key with one clock reading, on a
\* limiter with one admission to give: one was admitted, the other denied
C7_Witness ==
    /\ \/ IsSW /\ limiter.max_requests = 1
       \/ IsTB /\ limiter.capacity = 1
    /\ ncalls = 2
    /\ \A t \in Threads : pc[t] = "idle"
    /\ last.result = "False"
    /\ admitted[last.key][last.cur] = 1

\* C8: at most one state object is ever created for a key; a thread past the
\* lazy initialization works on the object the dictionary holds for its key;
\* and every admitted timestamp young enough that no call can have trimmed it
\* is in that object.
C8_OneObjectPerKey ==
    /\ \A k \in Keys : Cardinality({i \in DOMAIN heap : heap[i].key = k}) <= 1
    /\ \A k \in Keys : store[k] # 0 => (store[k] \in DOMAIN heap /\ heap[store[k]].key = k)
    /\ \A t \in Threads : Bound(t) => (ref[t] # 0 /\ ref[t] = store[key[t]])
    /\ IsSW => \A k \in Keys : \A n \in Times :
          (n >= clock - limiter.time_window /\ admitted[k][n] > 0) =>
              (store[k] # 0 /\ Count(heap[store[k]].ts, n) = admitted[k][n])

\* the first two calls made were for the same new key with the same clock
\* reading, and the one object created holds the effect of both
C8_Witness ==
    /\ ncalls = 2
    /\ \A t \in Threads : pc[t] = "idle"
    /\ last.result = "True"
    /\ admitted[last.key][last.cur] = 2
    /\ Len(heap) = 1
    /\ \/ IsSW /\ Len(heap[1].ts) = 2
       \/ IsTB /\ heap[1].tokens = CapacityUnits - 2 * OneToken

\* ---------------------------------------------------------------- liveness
\* A thread that is inside allow_requests keeps running, and a thread waiting
\* for the lock gets it if it is free again and again.
Fairness ==
    \A t \in Threads :
        /\ SF_vars(Acquire(t))
        /\ WF_vars(CheckKey(t) \/ Bind(t) \/ Trim(t) \/ Refill(t) \/ Check(t) \/ Commit(t))

\* two threads and one limiter of each class, small enough that calls are
\* denied and timestamps are trimmed
FairNext ==
    \/ NewSlidingWindow(2, 1)
    \/ NewTokenBucket(1, <<1, 1>>)
    \/ Tick
    \/ \E t \in Threads, k \in Keys : ReadClock(t, k)
    \/ \E t \in Threads : Step(t)

FairSpec == Init /\ [][FairNext]_vars /\ Fairness

\* C9: under fair scheduling every call that has started returns True or False.
C9_EveryCallReturns ==
    \A t \in Threads :
        (pc[t] # "idle") ~> (pc[t] = "idle" /\ last.result \in {"True", "False"})

\* a thread waits for the lock while its holder is in the trimming loop, about
\* to discard an expired timestamp
C9_Witness ==
    /\ IsSW
    /\ ncalls >= 3
    /\ \E t \in Threads : pc[t] = "wait"
    /\ \E u \in Threads :
          /\ pc[u] = "trim" /\ lock = u
          /\ heap[ref[u]].ts # <<>>
          /\ Expired(Head(heap[ref[u]].ts), cur[u])

\* C10: RateLimiterFactory('sliding_window') returns a sliding-window limiter,
\* RateLimiterFactory('token_bucket') a token-bucket limiter, and for any other
\* argument it raises ValueError and no limiter exists (so none is ever called).
C10_FactoryClosedSelectors ==
    /\ selector = "sliding_window" => (IsSW /\ raised = "none")
    /\ selector = "token_bucket" => (IsTB /\ raised = "none")
    /\ selector \in Selectors \ {"sliding_window", "token_bucket"} =>
          (limiter = NoLimiter /\ raised = "ValueError" /\ ncalls = 0)

\* the factory was called with an argument that names no limiter
C10_Witness ==
    /\ selector = "test"
    /\ raised = "ValueError"
    /\ limiter.kind = "None"

\* ------------------------------------------------- unvalidated arguments
\* Arguments of either sign: neither __init__ looks at the values it stores.
ArgChoices == {-1, 0, 1}
AnyRateChoices == {<<-1, 1>>, <<0, 1>>, <<1, 1>>}

AnyConstruct ==
    \/ \E m \in ArgChoices, w \in ArgChoices : NewSlidingWindow(m, w)
    \/ \E c \in ArgChoices, r \in AnyRateChoices : NewTokenBucket(c, r)

AnyNext ==
    \/ AnyConstruct
    \/ Tick
    \/ \E k \in Keys : ReadClock(1, k)
    \/ Step(1)

AnySpec == Init /\ [][AnyNext]_vars

NonPositive ==
    \/ IsSW /\ (limiter.max_requests <= 0 \/ limiter.time_window <= 0)
    \/ IsTB /\ (limiter.capacity <= 0 \/ limiter.refill_num <= 0)

\* C11: a construction with a non-positive max_requests, time_window,
\* capacity or refill_rate fails, so no limiter that holds a non-positive
\* parameter is ever obtained.
C11_NonPositiveRejected == ~NonPositive

AllIdle == \A t \in Threads : pc[t] = "idle"

\* C12: a sliding-window call that is denied (max_requests >= 1) returns with
\* the key's timestamp sequence exactly as the call found it: no timestamp
\* was trimmed and none was appended.
C12_DeniedLeavesSequence ==
    [][\A t \in Threads :
         (IsSW /\ limiter.max_requests >= 1 /\ Returns(t) /\ ~ok[t]) =>
            heap'[ref[t]].ts = entry[t].ts]_vars

\* A call denied at a clock reading later than the oldest retained timestamp.
C12_Witness ==
    /\ IsSW
    /\ AllIdle
    /\ last.result = "False"
    /\ store[last.key] # 0
    /\ heap[store[last.key]].ts # <<>>
    /\ Head(heap[store[last.key]].ts) < last.cur

\* C13: a token-bucket call that is denied at clock reading now returns with
\* last_refill = now and tokens = min(capacity, tokens_before +
\* (now - last_refill_before) * refill_rate), nothing debited.
C13_DeniedStillRefills ==
    [][\A t \in Threads :
         (IsTB /\ Returns(t) /\ ~ok[t]) =>
            /\ heap'[ref[t]].last_refill = cur[t]
            /\ heap'[ref[t]].tokens =
                 Min(CapacityUnits,
                     entry[t].tokens + (cur[t] - entry[t].last_refill) * limiter.refill_num)]_vars

\* A denied call that credited part of a token for the time since the
\* previous refill.
C13_Witness ==
    /\ IsTB
    /\ AllIdle
    /\ last.result = "False"
    /\ store[last.key] # 0
    /\ heap[store[last.key]].last_refill = last.cur
    /\ last.cur > 0
    /\ heap[store[last.key]].tokens > 0

\* C14: with one caller, a sliding-window call at clock reading now is
\* admitted exactly when fewer than max_requests calls of its key were
\* admitted at readings in [now - time_window, now].  So the first
\* max_requests calls of a fresh key inside one window are admitted, the next
\* call inside that window is denied, and a call made after the clock has
\* advanced by more than time_window past the admitted calls is admitted again.
C14_AdmissionAndRecovery ==
    [][(IsSW /\ Returns(1)) =>
          (ok[1] <=> SumOver(key[1], cur[1] - limiter.time_window, cur[1])
                        < limiter.max_requests)]_vars

\* Three calls of one key with max_requests = 1: admitted, denied inside the
\* window, admitted again more than time_window later.
C14_Witness ==
    /\ IsSW
    /\ limiter.max_requests = 1
    /\ AllIdle
    /\ ncalls = 3
    /\ last.result = "True"
    /\ \E n \in Times :
          /\ n + limiter.time_window < last.cur
          /\ admitted[last.key][n] = 1
    /\ \A k \in Keys : k # last.key => store[k] = 0

\* C15: the last_refill of every bucket never decreases, whatever the order
\* in which calls that read the clock before taking the lock enter.
C15_LastRefillMonotone ==
    [][IsTB => \A i \in DOMAIN heap : heap'[i].last_refill >= heap[i].last_refill]_vars

\* C16: a refill whose clock reading is earlier than the stored last_refill
\* adds zero tokens: it leaves the token count as it was.
C16_NegativeElapsedClamped ==
    [][\A t \in Threads :
         (IsTB /\ pc[t] = "refill" /\ pc'[t] = "check"
               /\ cur[t] < heap[ref[t]].last_refill) =>
            heap'[ref[t]].tokens = heap[ref[t]].tokens]_vars

\* C17: the retained timestamps of every key are in non-decreasing order in
\* every reachable state.
C17_TimestampsInOrder ==
    IsSW => \A i \in DOMAIN heap : Sorted(heap[i].ts)

\* C18: the timestamp sequence of every sliding-window key holds at most
\* max_requests timestamps in every reachable state, under any interleaving.
C18_SequenceWithinLimit ==
    IsSW => \A i \in DOMAIN heap : Len(heap[i].ts) <= limiter.max_requests

\* A full sequence met by a call that read the clock before the newest
\* retained timestamp was recorded.
C18_Witness ==
    /\ IsSW
    /\ \E t \in Threads :
          /\ pc[t] = "check"
          /\ Len(heap[ref[t]].ts) = limiter.max_requests
          /\ \E i \in 1..Len(heap[ref[t]].ts) : heap[ref[t]].ts[i] > cur[t]

\* C19: for every token-bucket key and clock readings t0 <= t1, the calls
\* admitted with a reading in [t0, t1] number at most
\* capacity + refill_rate * (t1 - t0), under any interleaving.
C19_TokenBucketRateBound ==
    IsTB => \A k \in Keys : \A t0 \in Times : \A t1 \in t0..MaxTime :
               SumOver(k, t0, t1) * limiter.refill_den
                  <= CapacityUnits + limiter.refill_num * (t1 - t0)

\* The bound is met with equality over an interval of two ticks, after a
\* call with a stale reading moved last_refill backwards.
C19_Witness ==
    /\ IsTB
    /\ AllIdle
    /\ \E k \in Keys : \E t0 \in Times : \E t1 \in (t0 + 2)..MaxTime :
          /\ SumOver(k, t0, t1) * limiter.refill_den
                = CapacityUnits + limiter.refill_num * (t1 - t0)
          /\ heap[store[k]].last_refill < t1

HoldsKey(k) == \E t \in Threads : InCriticalSection(t) /\ key[t] = k

\* C20: the call that creates a key's entry is admitted by either limiter
\* (max_requests >= 1, capacity >= 1), so whenever an entry exists and no call
\* of its key is inside the critical section, a call of that key has been
\* admitted; and an entry, once in the store, is never removed or replaced.
C20_FirstCallAdmittedEntryKept ==
    [][\A k \in Keys :
         /\ store[k] # 0 => store'[k] = store[k]
         /\ (store'[k] # 0 /\ ~HoldsKey(k)'
                /\ (IsSW' => limiter'.max_requests >= 1)
                /\ (IsTB' => limiter'.capacity >= 1))
               => SumOver(k, 0, MaxTime)' >= 1]_vars

\* Both keys have an entry and the second one was created by a call that
\* entered while its clock reading was already stale.
C20_Witness ==
    /\ AllIdle
    /\ \A k \in Keys : store[k] # 0
    /\ last.result = "True"
    /\ last.cur < clock
    /\ SumOver(last.key, 0, MaxTime) = 1
====
